---- MODULE Spec2Model ----
(***************************************************************************)
(* Model of the demo ingestion loop of client-backend (src/src/demo.rs):   *)
(* DemoManager / OpenDemo and the driving loop demo_loop, together with    *)
(* the file system the loop observes through metadata / open / seek /      *)
(* read_to_end.                                                            *)
(*                                                                         *)
(* The frame decoder (Header::read and RawPacketStream::next of the        *)
(* tf_demo_parser crate) is an external collaborator.  It is modelled as a *)
(* deterministic decoder over a two-valued byte alphabet with the outcomes *)
(* the code distinguishes: a value and a new stream position,              *)
(* NotEnoughData, any other error, and (for packets) Ok(None).             *)
(* Positions are bit positions, as in bitbuffer: one byte is 8 bits.       *)
(*                                                                         *)
(* The module also models the batching loop of the Steam API task          *)
(* (src/src/steamapi.rs): SteamAPIManager and api_loop.  The two loops     *)
(* share no state; each specification runs one of them.                    *)
(***************************************************************************)
EXTENDS Integers, Sequences, FiniteSets, TLC

\* ------------------------------------------------------------------ bounds

\* Spec follows the manager over several sessions on two capture files;
\* SpecStream follows one session on one capture file further into the file;
\* SpecFaults follows a few sessions while one file grows, shrinks and
\* vanishes; SpecFallback follows one session that is driven by timeouts alone.

\* Sessions DemoManager::new_demo creates in one run of Spec.
MaxSessions == 3

\* Bytes the producer appends in one run of Spec, over both files.
MaxBytes == 3

\* Bytes the producer appends in one run of SpecStream.
MaxStreamBytes == 7

\* Bytes the producer appends in one run of SpecFallback.
MaxFallbackBytes == 7

\* Sessions and bytes appended in one run of SpecFaults.
MaxFaultSessions == 2

MaxFaultBytes == 4

\* Lookup messages and SetAPIKey messages in one run of SpecApi.
MaxLookups == 22

MaxKeySets == 2

\* The state handler may fail on the 1st .. MaxFail-th packet of a cycle.
MaxFail == 2

\* ------------------------------------------------------------ input spaces

\* The bytes of a file.  Where a header starts, 1 is its magic and 0 is
\* malformed; where a packet starts, 1 is the type of a packet with one more
\* byte (0: a Stop packet, 1: a message packet) and 0 is an unknown type.
Byte == {0, 1}

\* A path is <<stem, extension>>.
DemPaths == {<<"a", "dem">>, <<"b", "dem">>}

Paths == DemPaths \cup {<<"c", "log">>}

\* notify::Event as the loop reads it: its kind and its list of paths.
EventKinds == {"Create", "ModifyData", "Other"}

Events == [kind : EventKinds, paths : {<<>>} \cup {<<p>> : p \in Paths}]

VARIABLES
    files,          \* file system: DemPaths -> [exists, data]
    current_demo,   \* DemoManager.current_demo: <<>> (None) or <<OpenDemo>>
    previous_demos, \* DemoManager.previous_demos
    pc,             \* "recv": blocked in recv_timeout; "read": inside
                    \* OpenDemo::read_next_bytes between metadata and open;
                    \* "dead": the loop has panicked and its
                    \* manager is dropped
    exit,           \* why the loop ended ("" while it runs)
    nextId,         \* sessions created so far (names the sessions)
    written,        \* bytes the producer has appended so far
    last            \* the last step taken: [op, res, path, pre, mid], with
                    \* the path new_demo was called with, if it was, the
                    \* length of the buffer before a read, and whether
                    \* the producer acted just before the read, between
                    \* metadata() and File::open

vars == <<files, current_demo, previous_demos, pc, exit, nextId, written,
          last>>

VARIABLES
    batch_buffer,   \* SteamAPIManager.batch_buffer
    api_key_valid,  \* SteamAPIManager.api_key_valid
    client,         \* SteamAPIManager.client: the key its requests carry
    api_pc,         \* "run": api_loop waits in select!; "dead": it has
                    \* panicked
    lookups,        \* Lookup messages received so far (they name the ids)
    key_sets,       \* SetAPIKey messages received so far
    api_last        \* the last step of api_loop: [op, id, sent, resp,
                    \* asked]: the id of a Lookup, the ids of the batch
                    \* request issued, the ids answered with a SteamInfo,
                    \* the ids whose friend list was requested

apivars == <<batch_buffer, api_key_valid, client, api_pc, lookups, key_sets,
             api_last>>

\* ---------------------------------------------------------------- decoder

\* Bytes of an encoded header (1072 in the real format).
HeaderLen == 2

\* Byte index (0-based) of a bit position.
ByteIndex(pos) == pos \div 8

\* Bytes of the buffer at and after bit position pos.
BytesLeft(bytes, pos) == Len(bytes) - ByteIndex(pos)

\* Header::read(&mut stream): the first byte is checked as soon as it is
\* there; the header needs HeaderLen bytes.
HeaderRead(bytes, pos) ==
    LET b == ByteIndex(pos) IN
    IF BytesLeft(bytes, pos) < 1
    THEN [tag |-> "not_enough", pos |-> pos, value |-> <<>>]
    ELSE IF bytes[b + 1] = 0
    THEN [tag |-> "error", pos |-> pos, value |-> <<>>]
    ELSE IF BytesLeft(bytes, pos) < HeaderLen
    THEN [tag |-> "not_enough", pos |-> pos, value |-> <<>>]
    ELSE [tag |-> "ok", pos |-> pos + 8 * HeaderLen,
          value |-> SubSeq(bytes, b + 1, b + HeaderLen)]

\* RawPacketStream::next(&state): Ok(None) once the stream has ended (a Stop
\* packet was read from this stream); a packet is its type byte and one more
\* byte, which tells a Stop packet from a message packet.  pos is where the
\* stream stands afterwards: a read that fails for lack of data leaves the
\* stream behind the fields read before it.
PacketNext(bytes, pos, ended) ==
    LET b == ByteIndex(pos) IN
    IF ended
    THEN [tag |-> "none", pos |-> pos, ended |-> TRUE]
    ELSE IF BytesLeft(bytes, pos) < 1
    THEN [tag |-> "not_enough", pos |-> pos, ended |-> FALSE]
    ELSE IF bytes[b + 1] = 0
    THEN [tag |-> "error", pos |-> pos, ended |-> FALSE]
    ELSE IF BytesLeft(bytes, pos) < 2
    THEN [tag |-> "not_enough", pos |-> pos + 8, ended |-> FALSE]
    ELSE [tag |-> "packet", pos |-> pos + 16, ended |-> bytes[b + 2] = 0]

\* DemoHandler::with_analyser(GameStateAnalyser::new())
NewHandler == [header_seen |-> FALSE, packets |-> 0]

\* ---------------------------------------------------------------- OpenDemo

\* The OpenDemo built by new_demo.  Two fields record what happened and are
\* not read by the program: id names the session, and dispatched logs the
\* packets given to OpenDemo::handle_packet, as <<start, end>> bit spans.
NewOpenDemo(path, sid) ==
    [file_path |-> path, header |-> <<>>, handler |-> NewHandler,
     bytes |-> <<>>, offset |-> 0, id |-> sid, dispatched |-> <<>>]

\* self.handle_packet(&packet)
handle_packet(d, from, to) ==
    [d EXCEPT !.dispatched = Append(@, <<from, to>>)]

\* Mutant of PacketHandled: the cursor is not moved behind the packet.
PacketHandledNoSeek(d, to) ==
    [d EXCEPT !.handler.packets = @ + 1]

\* self.handler.handle_packet(packet) succeeded; self.offset = packets.pos()
PacketHandled(d, to) ==
    [d EXCEPT !.handler.packets = @ + 1, !.offset = to]

\* Mutant of PacketNotEnough: the cursor skips the packet that is not there
\* yet.
PacketNotEnoughSkips(d, pos) ==
    [d EXCEPT !.offset = pos + 8]

\* Mutant of PacketNotEnough: the cursor is left where the failed attempt
\* stopped.
PacketNotEnoughSeeks(d, pos) ==
    [d EXCEPT !.offset = pos]

\* Mutant of PacketNotEnough: the bytes of the incomplete packet are dropped
\* from the buffer.
PacketNotEnoughDrops(d, pos) ==
    [d EXCEPT !.bytes = SubSeq(@, 1, ByteIndex(d.offset))]

\* The NotEnoughData arm of the packet loop, with the stream at pos: break,
\* nothing is assigned.
PacketNotEnough(d, pos) ==
    d

\* Mutant of HeaderParsed: the cursor stays in front of the header.
HeaderParsedKeepsCursor(d, r) ==
    [d EXCEPT !.handler.header_seen = TRUE, !.header = <<r.value>>]

\* The Ok(header) arm: handle_header, self.header, self.offset = stream.pos()
HeaderParsed(d, r) ==
    [d EXCEPT !.handler.header_seen = TRUE, !.header = <<r.value>>,
              !.offset = r.pos]

\* The packet loop of process_next_chunk.  n counts the packets of this
\* cycle; the state handler fails on packet hfail (0: never), and the unwrap
\* of its result then panics.
RECURSIVE PacketLoop(_, _, _, _, _)
PacketLoop(d, pos, ended, hfail, n) ==
    LET r == PacketNext(d.bytes, pos, ended) IN
    CASE r.tag = "packet" ->
            LET d1 == handle_packet(d, pos, r.pos) IN
            IF hfail = n
            THEN [demo |-> d1, panic |-> "handler_unwrap", res |-> "panic"]
            ELSE PacketLoop(PacketHandled(d1, r.pos), r.pos, r.ended,
                            hfail, n + 1)
      [] r.tag = "none" ->
            [demo |-> d, panic |-> "", res |-> "pkt_none"]
      [] r.tag = "not_enough" ->
            [demo |-> PacketNotEnough(d, r.pos), panic |-> "",
             res |-> "pkt_not_enough"]
      [] OTHER ->
            [demo |-> d, panic |-> "", res |-> "pkt_error"]

\* OpenDemo::process_next_chunk.  It returns nothing: res only names the arm
\* that ended the cycle.
process_next_chunk(d, hfail) ==
    IF d.offset > 8 * Len(d.bytes)
    THEN [demo |-> d, panic |-> "set_pos_unwrap", res |-> "panic"]
    ELSE IF d.header = <<>>
    THEN LET r == HeaderRead(d.bytes, d.offset) IN
         CASE r.tag = "ok" ->
                 PacketLoop(HeaderParsed(d, r), r.pos, FALSE, hfail, 1)
           [] r.tag = "not_enough" ->
                 [demo |-> d, panic |-> "", res |-> "hdr_not_enough"]
           [] OTHER ->
                 [demo |-> d, panic |-> "", res |-> "hdr_error"]
    ELSE PacketLoop(d, d.offset, FALSE, hfail, 1)

\* Mutant of LenCheck: a shorter file passes for a file that has not grown.
LenCheckNoShrink(flen, blen) ==
    IF flen <= blen THEN "no_growth" ELSE "growth"

\* Mutant of LenCheck: a file of the buffer's length is read all the same.
LenCheckAlwaysReads(flen, blen) ==
    IF flen < blen THEN "shrunk" ELSE "growth"

\* The comparison of the file's length with the buffer's length.
LenCheck(flen, blen) ==
    IF flen < blen THEN "shrunk"
    ELSE IF flen = blen THEN "no_growth"
    ELSE "growth"

\* Mutant of ReadToEnd: the seek is missing and the file is read from its
\* start.
ReadToEndFromStart(data, last_size) ==
    data

\* Mutant of ReadToEnd: the seek goes one byte too far.
ReadToEndSkips(data, last_size) ==
    SubSeq(data, last_size + 2, Len(data))

\* seek(Start(last_size)) and read_to_end(&mut self.bytes): the bytes read.
ReadToEnd(data, last_size) ==
    SubSeq(data, last_size + 1, Len(data))

\* Mutant of AppendRead: the bytes read replace the buffer.
AppendReadReplaces(d, read) ==
    [d EXCEPT !.bytes = read]

\* read_to_end(&mut self.bytes): the bytes read are appended to the buffer.
AppendRead(d, read) ==
    [d EXCEPT !.bytes = @ \o read]

\* Mutant of GotBytes: a read of no bytes is processed like any other.
GotBytesAlways(read) ==
    TRUE

\* if read_bytes > 0
GotBytes(read) ==
    Len(read) > 0

\* ------------------------------------------------------------- DemoManager

\* Mutant of new_demo: a path that is already watched keeps its demo.
new_demo_keeps_watched(prev, cur, path, sid) ==
    IF cur /= <<>> /\ cur[1].file_path = path
    THEN [previous_demos |-> prev, current_demo |-> cur]
    ELSE [previous_demos |-> prev \o cur,
          current_demo |-> <<NewOpenDemo(path, sid)>>]

\* Mutant of new_demo: the old demo is put in front of the history.
new_demo_prepends(prev, cur, path, sid) ==
    [previous_demos |-> cur \o prev,
     current_demo |-> <<NewOpenDemo(path, sid)>>]

\* Mutant of new_demo: the old demo is dropped, not kept.
new_demo_drops(prev, cur, path, sid) ==
    [previous_demos |-> prev,
     current_demo |-> <<NewOpenDemo(path, sid)>>]

\* DemoManager::new_demo: the new previous_demos and current_demo.
new_demo(prev, cur, path, sid) ==
    [previous_demos |-> prev \o cur,
     current_demo |-> <<NewOpenDemo(path, sid)>>]

\* Mutant of IsCurrentPath: no path passes for the current demo's path.
IsCurrentPathNever(cur, path) == FALSE

\* DemoManager::current_demo_path() == Some(path)
IsCurrentPath(cur, path) == cur /= <<>> /\ cur[1].file_path = path

\* path.extension().map_or(false, |ext| ext == "dem")
IsDem(path) == path[2] = "dem"

\* Mutant of StatStep: an Err from metadata() leaves the demo current.
StatStepKeeps(cur, statOk) ==
    IF cur = <<>>
    THEN [current_demo |-> cur, pc |-> "recv", res |-> "no_demo"]
    ELSE LET f == files[cur[1].file_path] IN
         IF ~f.exists \/ ~statOk
         THEN [current_demo |-> cur, pc |-> "recv", res |-> "io_error"]
         ELSE LET c == LenCheck(Len(f.data), Len(cur[1].bytes)) IN
              CASE c = "shrunk" ->
                      [current_demo |-> <<>>, pc |-> "recv", res |-> c]
                [] c = "no_growth" ->
                      [current_demo |-> cur, pc |-> "recv", res |-> c]
                [] OTHER ->
                      [current_demo |-> cur, pc |-> "read", res |-> c]

\* DemoManager::read_next_bytes up to the length check of
\* OpenDemo::read_next_bytes: metadata() fails when the file is not there or
\* cannot be read (statOk); an Err abandons the demo.
StatStep(cur, statOk) ==
    IF cur = <<>>
    THEN [current_demo |-> cur, pc |-> "recv", res |-> "no_demo"]
    ELSE LET f == files[cur[1].file_path] IN
         IF ~f.exists \/ ~statOk
         THEN [current_demo |-> <<>>, pc |-> "recv", res |-> "io_error"]
         ELSE LET c == LenCheck(Len(f.data), Len(cur[1].bytes)) IN
              CASE c = "shrunk" ->
                      [current_demo |-> <<>>, pc |-> "recv", res |-> c]
                [] c = "no_growth" ->
                      [current_demo |-> cur, pc |-> "recv", res |-> c]
                [] OTHER ->
                      [current_demo |-> cur, pc |-> "read", res |-> c]

\* const BATCH_SIZE: usize = 20
BATCH_SIZE == 20

\* The length of a Steam API key.
KEY_LEN == 32

\* char::is_ascii_hexdigit
HexDigits ==
    {"0", "1", "2", "3", "4", "5", "6", "7", "8", "9",
     "a", "b", "c", "d", "e", "f", "A", "B", "C", "D", "E", "F"}

\* is_api_key_valid: exactly 32 characters, all of them hexadecimal digits.
is_api_key_valid(api_key) ==
    /\ Len(api_key) = KEY_LEN
    /\ \A i \in 1..Len(api_key) : api_key[i] \in HexDigits

\* What a step of api_loop did.
ApiDid(op, id, sent, resp, asked) ==
    [op |-> op, id |-> id, sent |-> sent, resp |-> resp, asked |-> asked]

\* SteamAPIManager::new(api_key, recv)
SteamAPIManagerNew(api_key) ==
    /\ batch_buffer = <<>>
    /\ api_key_valid = is_api_key_valid(api_key)
    /\ client = api_key
    /\ api_pc = "run"
    /\ lookups = 0
    /\ key_sets = 0
    /\ api_last = ApiDid("init", 0, <<>>, <<>>, <<>>)

\* DemoManager::new() and the files before the loop starts.
DemoManagerNew ==
    /\ files = [p \in DemPaths |-> [exists |-> FALSE, data |-> <<>>]]
    /\ current_demo = <<>>
    /\ previous_demos = <<>>
    /\ pc = "recv"
    /\ exit = ""
    /\ nextId = 0
    /\ written = 0
    /\ last = [op |-> "init", res |-> "", path |-> <<>>, pre |-> 0,
               mid |-> FALSE]

\* The demo loop starts; the Steam API task, built without a key, takes no
\* step in the specifications of the demo loop.
Init ==
    /\ DemoManagerNew
    /\ SteamAPIManagerNew(<<>>)

\* --------------------------------------------------------------- demo_loop

\* What a step of the loop did.
Did(op, res) ==
    [op |-> op, res |-> res, path |-> <<>>, pre |-> 0, mid |-> FALSE]

\* What a step of the loop that called new_demo(path) did.
DidNew(op, res, path) ==
    [op |-> op, res |-> res, path |-> path, pre |-> 0, mid |-> FALSE]

\* What a read into a buffer of last_size bytes did.
DidRead(res, last_size) ==
    [op |-> "read", res |-> res, path |-> <<>>, pre |-> last_size,
     mid |-> last.op = "fs"]

\* What the demo loop does not write: the producer's side of the state and
\* the Steam API task.
fsvars == <<files, written, apivars>>

\* manager.read_next_bytes() called from the loop with the manager's demo cur,
\* up to the point where the file is opened.
Advance(op, path, cur, statOk) ==
    LET s == StatStep(cur, statOk) IN
    /\ current_demo' = s.current_demo
    /\ pc' = s.pc
    /\ last' = DidNew(op, s.res, path)

\* let path = &event.paths[0] on an event without paths: the index panics.
EventNoPath(ev) ==
    /\ pc = "recv"
    /\ ev.paths = <<>>
    /\ pc' = "dead"
    /\ exit' = "paths_index"
    /\ last' = Did("event", "panic")
    /\ current_demo' = <<>>
    /\ previous_demos' = <<>>
    /\ UNCHANGED <<fsvars, nextId>>

\* EventKind::Create(_); cap bounds the sessions of the run.
EventCreate(ev, cap) ==
    /\ pc = "recv"
    /\ ev.paths /= <<>>
    /\ ev.kind = "Create"
    /\ LET path == ev.paths[1] IN
       IF IsDem(path)
       THEN /\ nextId < cap
            /\ LET m == new_demo(previous_demos, current_demo, path, nextId + 1) IN
               /\ previous_demos' = m.previous_demos
               /\ current_demo' = m.current_demo
            /\ nextId' = nextId + 1
            /\ last' = DidNew("create", "new_demo", path)
            /\ UNCHANGED <<fsvars, pc, exit>>
       ELSE /\ last' = Did("ignored", "")
            /\ UNCHANGED <<fsvars, current_demo, previous_demos, pc, exit, nextId>>

\* EventKind::Modify(ModifyKind::Data(_)); cap bounds the sessions of the run.
EventModify(ev, statOk, cap) ==
    /\ pc = "recv"
    /\ ev.paths /= <<>>
    /\ ev.kind = "ModifyData"
    /\ LET path == ev.paths[1] IN
       IF IsCurrentPath(current_demo, path)
       THEN /\ Advance("modify_cur", <<>>, current_demo, statOk)
            /\ UNCHANGED <<fsvars, previous_demos, exit, nextId>>
       ELSE IF IsDem(path)
       THEN /\ nextId < cap
            /\ LET m == new_demo(previous_demos, current_demo, path, nextId + 1) IN
               /\ previous_demos' = m.previous_demos
               /\ Advance("modify_new", path, m.current_demo, statOk)
            /\ nextId' = nextId + 1
            /\ UNCHANGED <<fsvars, exit>>
       ELSE /\ last' = Did("ignored", "")
            /\ UNCHANGED <<fsvars, current_demo, previous_demos, pc, exit, nextId>>

\* Any other kind of event: the _ => {} arm.
EventOther(ev) ==
    /\ pc = "recv"
    /\ ev.paths /= <<>>
    /\ ev.kind = "Other"
    /\ last' = Did("ignored", "")
    /\ UNCHANGED <<fsvars, current_demo, previous_demos, pc, exit, nextId>>

\* Mutant of Timeout: the timeout arm does not call read_next_bytes.
TimeoutIdle(statOk) ==
    /\ pc = "recv"
    /\ last' = Did("timeout", "no_demo")
    /\ UNCHANGED <<fsvars, current_demo, previous_demos, pc, exit, nextId>>

\* Err(RecvTimeoutError::Timeout)
Timeout(statOk) ==
    /\ pc = "recv"
    /\ Advance("timeout", <<>>, current_demo, statOk)
    /\ UNCHANGED <<fsvars, previous_demos, exit, nextId>>

\* Err(RecvTimeoutError::Disconnected)
Disconnected ==
    /\ pc = "recv"
    /\ pc' = "dead"
    /\ exit' = "disconnected"
    /\ last' = Did("disconnected", "panic")
    /\ current_demo' = <<>>
    /\ previous_demos' = <<>>
    /\ UNCHANGED <<fsvars, nextId>>

\* The rest of OpenDemo::read_next_bytes, from File::open on, and what
\* DemoManager::read_next_bytes does with its result.  open, seek or read
\* may fail (openOk); the state handler fails on packet hfail of the cycle.
ReadStep(openOk, hfail) ==
    /\ pc = "read"
    /\ LET d == current_demo[1]
           f == files[d.file_path]
       IN
       IF ~f.exists \/ ~openOk
       THEN /\ current_demo' = <<>>
            /\ previous_demos' = previous_demos
            /\ pc' = "recv"
            /\ exit' = exit
            /\ last' = DidRead("io_error", Len(d.bytes))
       ELSE LET last_size == Len(d.bytes)
                read == ReadToEnd(f.data, last_size)
                d1 == AppendRead(d, read)
            IN
            IF GotBytes(read)
            THEN LET r == process_next_chunk(d1, hfail) IN
                 IF r.panic = ""
                 THEN /\ current_demo' = <<r.demo>>
                      /\ previous_demos' = previous_demos
                      /\ pc' = "recv"
                      /\ exit' = exit
                      /\ last' = DidRead(r.res, last_size)
                 ELSE /\ current_demo' = <<>>
                      /\ previous_demos' = <<>>
                      /\ pc' = "dead"
                      /\ exit' = r.panic
                      /\ last' = DidRead(r.res, last_size)
            ELSE /\ current_demo' = <<d>>
                 /\ previous_demos' = previous_demos
                 /\ pc' = "recv"
                 /\ exit' = exit
                 /\ last' = DidRead("read_zero", last_size)
    /\ UNCHANGED <<fsvars, nextId>>

\* ---------------------------------------------------------------- producer

\* What the game client, or anyone else, does to the capture files while the
\* loop runs; appending to a file that is not there creates it.  Once the
\* loop is dead nothing observes the files any more.
FsDid == Did("fs", "")

loopvars == <<current_demo, previous_demos, pc, exit, nextId, apivars>>

FsCreate(p) ==
    /\ pc /= "dead"
    /\ ~files[p].exists
    /\ files' = [files EXCEPT ![p] = [exists |-> TRUE, data |-> <<>>]]
    /\ last' = FsDid
    /\ UNCHANGED <<loopvars, written>>

FsAppend(p, b, cap) ==
    /\ pc /= "dead"
    /\ written < cap
    /\ files' = [files EXCEPT ![p] = [exists |-> TRUE, data |-> Append(@.data, b)]]
    /\ written' = written + 1
    /\ last' = FsDid
    /\ UNCHANGED loopvars

FsTruncate(p, n) ==
    /\ pc /= "dead"
    /\ files[p].exists
    /\ n < Len(files[p].data)
    /\ files' = [files EXCEPT ![p].data = SubSeq(@, 1, n)]
    /\ last' = FsDid
    /\ UNCHANGED <<loopvars, written>>

FsRemove(p) ==
    /\ pc /= "dead"
    /\ files[p].exists
    /\ files' = [files EXCEPT ![p] = [exists |-> FALSE, data |-> <<>>]]
    /\ last' = FsDid
    /\ UNCHANGED <<loopvars, written>>

\* The steps of the loop, with at most cap sessions.
Loop(cap) ==
    \/ \E ev \in Events : EventNoPath(ev)
    \/ \E ev \in Events : EventCreate(ev, cap)
    \/ \E ev \in Events, statOk \in BOOLEAN : EventModify(ev, statOk, cap)
    \/ \E ev \in Events : EventOther(ev)
    \/ \E statOk \in BOOLEAN : Timeout(statOk)
    \/ Disconnected
    \/ \E openOk \in BOOLEAN, hfail \in 0..MaxFail : ReadStep(openOk, hfail)

\* A producer that appends at most cap bytes to the files ps.
Grow(ps, cap) ==
    \/ \E p \in ps, b \in Byte : FsAppend(p, b, cap)

\* Files that are also created empty, truncated and removed under the loop.
Disturb(ps, cap) ==
    \/ \E p \in ps : FsCreate(p)
    \/ \E p \in ps, n \in 0..cap : FsTruncate(p, n)
    \/ \E p \in ps : FsRemove(p)

\* Several sessions on two capture files that only grow.
Next == Loop(MaxSessions) \/ Grow(DemPaths, MaxBytes)

Spec == Init /\ [][Next]_vars

\* One session, on a capture file that grows, shrinks and vanishes.
StreamPaths == {<<"a", "dem">>}

NextStream ==
    \/ Loop(1)
    \/ Grow(StreamPaths, MaxStreamBytes)
    \/ Disturb(StreamPaths, MaxStreamBytes)

SpecStream == Init /\ [][NextStream]_vars

\* A few sessions, on capture files of which one grows, shrinks and vanishes.
NextFaults ==
    \/ Loop(MaxFaultSessions)
    \/ Grow(StreamPaths, MaxFaultBytes)
    \/ Disturb(StreamPaths, MaxFaultBytes)

SpecFaults == Init /\ [][NextFaults]_vars

\* The one notification that starts a session; cap bounds the sessions.
Start(ev, cap) ==
    /\ current_demo = <<>>
    /\ EventCreate(ev, cap)

\* Notification delivery suppressed: after the event that starts the session
\* the loop sees only timeouts, over a capture file that only grows, and
\* neither the file system nor the state handler fails.
NextFallback ==
    \/ \E ev \in Events : Start(ev, 1)
    \/ Timeout(TRUE)
    \/ ReadStep(TRUE, 0)
    \/ Grow(StreamPaths, MaxFallbackBytes)

\* recv_timeout(metadata_tick) returns Timeout every 5 seconds while no event
\* is queued, and the loop's thread runs read_next_bytes to its end.
SpecFallback ==
    /\ Init
    /\ [][NextFallback]_vars
    /\ WF_vars(Timeout(TRUE))
    /\ WF_vars(ReadStep(TRUE, 0))

\* ---------------------------------------------------------------- api_loop

\* The keys a SetAPIKey message or the configuration may carry: a key of 32
\* hexadecimal digits, one with a character that is no hexadecimal digit,
\* one that is too short, and none.
HexKey == [i \in 1..KEY_LEN |-> IF i % 3 = 0 THEN "F" ELSE IF i % 3 = 1 THEN "0" ELSE "a"]

OddCharKey == [HexKey EXCEPT ![KEY_LEN] = "g"]

ShortKey == SubSeq(HexKey, 1, KEY_LEN - 1)

Keys == {HexKey, OddCharKey, ShortKey, <<>>}

\* The lists of ids a CheckFriends message may carry.
FriendLists == {<<>>, <<1>>, <<1, 2>>}

\* Mutant of send_batch: a failed request leaves the ids in the buffer.
send_batch_keeps_failed(buf, reqOk, recvOpen) ==
    [batch_buffer |-> IF reqOk THEN <<>> ELSE buf,
     sent |-> buf,
     resp |-> IF reqOk /\ recvOpen THEN buf ELSE <<>>,
     panic |-> reqOk /\ buf /= <<>> /\ ~recvOpen]

\* SteamAPIManager::send_batch on the buffer buf: drain(..) empties the
\* buffer before the request is made; request_steam_info answers for all
\* ids or fails (reqOk); each answer is sent to the main thread, and the
\* expect on a closed channel (recvOpen) panics.
send_batch(buf, reqOk, recvOpen) ==
    [batch_buffer |-> <<>>,
     sent |-> buf,
     resp |-> IF reqOk /\ recvOpen THEN buf ELSE <<>>,
     panic |-> reqOk /\ buf /= <<>> /\ ~recvOpen]

\* Mutant of TickSends: the timer sends whatever the key is.
TickSendsAnyKey(valid, buf) ==
    buf /= <<>>

\* if self.api_key_valid && !self.batch_buffer.is_empty()
TickSends(valid, buf) ==
    valid /\ buf /= <<>>

\* SteamAPIMessage::SetAPIKey(key): set_api_key; cap bounds the messages.
ApiSetKey(key, cap) ==
    /\ api_pc = "run"
    /\ key_sets < cap
    /\ api_key_valid' = is_api_key_valid(key)
    /\ client' = key
    /\ key_sets' = key_sets + 1
    /\ api_last' = ApiDid("set_key", 0, <<>>, <<>>, <<>>)
    /\ UNCHANGED <<batch_buffer, api_pc, lookups, vars>>

\* SteamAPIMessage::Lookup(steamid), the id being the number of the message;
\* cap bounds the messages.
ApiLookup(reqOk, recvOpen, cap) ==
    /\ api_pc = "run"
    /\ lookups < cap
    /\ lookups' = lookups + 1
    /\ LET steamid == lookups + 1 IN
       IF api_key_valid
       THEN LET pushed == Append(batch_buffer, steamid) IN
            IF Len(pushed) >= BATCH_SIZE
            THEN LET b == send_batch(pushed, reqOk, recvOpen) IN
                 /\ batch_buffer' = b.batch_buffer
                 /\ api_pc' = IF b.panic THEN "dead" ELSE "run"
                 /\ api_last' = ApiDid("lookup", steamid, b.sent, b.resp, <<>>)
            ELSE /\ batch_buffer' = pushed
                 /\ api_pc' = api_pc
                 /\ api_last' = ApiDid("lookup", steamid, <<>>, <<>>, <<>>)
       ELSE /\ batch_buffer' = batch_buffer
            /\ api_pc' = api_pc
            /\ api_last' = ApiDid("lookup", steamid, <<>>, <<>>, <<>>)
    /\ UNCHANGED <<api_key_valid, client, key_sets, vars>>

\* SteamAPIMessage::CheckFriends(steamids): one request for each id, whose
\* answer, Ok or Err, is sent to the main thread; the expect on a closed
\* channel panics after the first request.
ApiCheckFriends(steamids, recvOpen) ==
    /\ api_pc = "run"
    /\ IF api_key_valid /\ steamids /= <<>>
       THEN IF recvOpen
            THEN /\ api_pc' = api_pc
                 /\ api_last' = ApiDid("check_friends", 0, <<>>, <<>>, steamids)
            ELSE /\ api_pc' = "dead"
                 /\ api_last' = ApiDid("check_friends", 0, <<>>, <<>>,
                                       <<steamids[1]>>)
       ELSE /\ api_pc' = api_pc
            /\ api_last' = ApiDid("check_friends", 0, <<>>, <<>>, <<>>)
    /\ UNCHANGED <<batch_buffer, api_key_valid, client, lookups, key_sets, vars>>

\* batch_timer.tick()
ApiTick(reqOk, recvOpen) ==
    /\ api_pc = "run"
    /\ IF TickSends(api_key_valid, batch_buffer)
       THEN LET b == send_batch(batch_buffer, reqOk, recvOpen) IN
            /\ batch_buffer' = b.batch_buffer
            /\ api_pc' = IF b.panic THEN "dead" ELSE "run"
            /\ api_last' = ApiDid("tick", 0, b.sent, b.resp, <<>>)
       ELSE /\ batch_buffer' = batch_buffer
            /\ api_pc' = api_pc
            /\ api_last' = ApiDid("tick", 0, <<>>, <<>>, <<>>)
    /\ UNCHANGED <<api_key_valid, client, lookups, key_sets, vars>>

\* The task is built with any key; the demo loop takes no step.
InitApi ==
    /\ DemoManagerNew
    /\ \E api_key \in Keys : SteamAPIManagerNew(api_key)

\* The select! of api_loop.
NextApi ==
    \/ \E key \in Keys : ApiSetKey(key, MaxKeySets)
    \/ \E reqOk \in BOOLEAN, recvOpen \in BOOLEAN :
           ApiLookup(reqOk, recvOpen, MaxLookups)
    \/ \E steamids \in FriendLists, recvOpen \in BOOLEAN :
           ApiCheckFriends(steamids, recvOpen)
    \/ \E reqOk \in BOOLEAN, recvOpen \in BOOLEAN : ApiTick(reqOk, recvOpen)

SpecApi == InitApi /\ [][NextApi]_apivars

\* ------------------------------------------------------------------ claims

\* The current session, where there is one.
Cur == current_demo[1]

\* A step that keeps the session it started with.
SameSession ==
    /\ current_demo /= <<>>
    /\ current_demo' /= <<>>
    /\ current_demo'[1].id = current_demo[1].id

\* C1: the cursor of a session, in bits, is never beyond the end of its
\* buffer (8 bits a byte), and no step on the session moves it backwards.
C1_CursorMonotoneBounded ==
    /\ [](current_demo /= <<>> => Cur.offset <= 8 * Len(Cur.bytes))
    /\ [][SameSession => current_demo'[1].offset >= Cur.offset]_vars

\* C1 witness: a read has moved the cursor to the very end of a buffer that
\* holds the header and a packet.
C1_Witness ==
    /\ current_demo /= <<>>
    /\ last.op = "read"
    /\ Cur.dispatched /= <<>>
    /\ Cur.offset = 8 * Len(Cur.bytes)

\* The packets dispatched by session d tile the buffer behind the header, in
\* order, and each is what the decoder decodes at its place.
DispatchedInOrder(d) ==
    \A i \in 1..Len(d.dispatched) :
        /\ d.dispatched[i][1] =
               IF i = 1 THEN 8 * HeaderLen ELSE d.dispatched[i - 1][2]
        /\ LET r == PacketNext(d.bytes, d.dispatched[i][1], FALSE) IN
           r.tag = "packet" /\ r.pos = d.dispatched[i][2]

\* C2: every packet the decoder decodes is dispatched once, in the order of
\* the byte stream: the dispatched packets are exactly the decoder's packets
\* at consecutive positions behind the header (none twice, none skipped, each
\* entirely in the buffer), each was handed to the state handler, and a cycle
\* that stops for lack of data leaves no decodable packet behind.
C2_DispatchOnceInOrder ==
    current_demo /= <<>> =>
        /\ DispatchedInOrder(Cur)
        /\ Cur.handler.packets = Len(Cur.dispatched)
        /\ (last.op = "read" /\ last.res = "pkt_not_enough") =>
               PacketNext(Cur.bytes, Cur.offset, FALSE).tag = "not_enough"

\* C2 witness: two packets are dispatched, and the bytes of the second
\* arrived in two reads (the buffer ended inside it before the last read).
C2_Witness ==
    /\ current_demo /= <<>>
    /\ last.op = "read"
    /\ Len(Cur.dispatched) = 2
    /\ Cur.dispatched[2][1] < 8 * last.pre
    /\ 8 * last.pre < Cur.dispatched[2][2]

\* Where the last fully decoded unit of session d ends.
LastUnitEnd(d) ==
    IF d.dispatched /= <<>> THEN d.dispatched[Len(d.dispatched)][2]
    ELSE IF d.header /= <<>> THEN 8 * HeaderLen
    ELSE 0

\* C3: the cursor of the current session is the end of the last unit decoded
\* (the last packet dispatched, else the header, else the start), and a step
\* on the session keeps every byte its buffer held.
C3_CursorAtLastUnit ==
    /\ [](current_demo /= <<>> => Cur.offset = LastUnitEnd(Cur))
    /\ [][SameSession =>
            /\ Len(current_demo'[1].bytes) >= Len(Cur.bytes)
            /\ SubSeq(current_demo'[1].bytes, 1, Len(Cur.bytes)) = Cur.bytes]_vars

\* C3 witness: a cycle that began with bytes in the buffer dispatched a packet
\* and stopped inside the next one, whose first byte stays behind the cursor.
C3_Witness ==
    /\ current_demo /= <<>>
    /\ last.op = "read"
    /\ last.res = "pkt_not_enough"
    /\ last.pre > 0
    /\ Cur.dispatched /= <<>>
    /\ Cur.offset < 8 * Len(Cur.bytes)

\* C4 (as claimed): after a read whose decoding met a hard error, in the
\* header or in a packet, the manager has no current demo.
C4_HardErrorAbandons ==
    (last.op = "read" /\ last.res \in {"hdr_error", "pkt_error"}) =>
        current_demo = <<>>

\* C5 (as claimed): when a Create event for a capture path follows the read
\* that met a malformed packet, the manager had no current demo when the
\* event came, and has a fresh one on that path afterwards.
C5_AbandonThenRecover ==
    [][(last.op = "read" /\ last.res = "pkt_error" /\ last'.op = "create") =>
          /\ current_demo = <<>>
          /\ current_demo' = <<NewOpenDemo(last'.path, nextId')>>]_vars

\* The steps that are one call of manager.read_next_bytes() on the demo the
\* manager already has.
AdvanceOps == {"timeout", "modify_cur"}

\* The file of the current demo is shorter than the demo's buffer.
FileShrunk ==
    /\ current_demo /= <<>>
    /\ files[Cur.file_path].exists
    /\ Len(files[Cur.file_path].data) < Len(Cur.bytes)

\* C6: an advance that finds the file shorter than the buffer reads and
\* decodes nothing (the loop is back in recv, the files and the history are
\* as before) and leaves the manager without a current demo; and only such
\* an advance is reported as a shrunk file.
C6_TruncationRejected ==
    [][/\ (last'.op \in AdvanceOps /\ pc = "recv" /\ FileShrunk) =>
            /\ current_demo' = <<>>
            /\ pc' = "recv"
            /\ previous_demos' = previous_demos
            /\ files' = files
            /\ last'.res \in {"shrunk", "io_error"}
       /\ last'.res = "shrunk" =>
            (pc = "recv" /\ FileShrunk /\ current_demo' = <<>>)]_vars

\* C6 witness: an advance has found the file shrunk and the demo is gone.
C6_Witness ==
    /\ last.op \in AdvanceOps
    /\ last.res = "shrunk"
    /\ current_demo = <<>>

\* C7 (as claimed): the loop ends only when the channel is disconnected.
C7_OnlyDisconnectStops ==
    pc = "dead" => exit = "disconnected"

\* C8: a step that calls new_demo(path) appends the current demo, as it is,
\* to previous_demos, whose earlier entries stay as they are, and the new
\* current demo is the fresh OpenDemo on path (no header, empty buffer,
\* cursor 0); after a Create event there is such a demo, and after a
\* ModifyData event there is one unless its first metadata() failed.
C8_SessionReplacement ==
    [][nextId' /= nextId =>
          /\ previous_demos' = previous_demos \o current_demo
          /\ IsDem(last'.path)
          /\ current_demo' /= <<>> =>
                 current_demo' = <<NewOpenDemo(last'.path, nextId')>>
          /\ last'.op = "create" => current_demo' /= <<>>]_vars

\* C8 witness: a Create event has replaced a demo that had decoded its header
\* by a fresh demo on the other path, behind an older entry of the history.
C8_Witness ==
    /\ last.op = "create"
    /\ current_demo /= <<>>
    /\ Len(previous_demos) = 2
    /\ previous_demos[2].header /= <<>>
    /\ previous_demos[2].offset > 0
    /\ previous_demos[2].file_path /= Cur.file_path
    /\ Cur.bytes = <<>>

\* The file of the current demo is as long as the demo's buffer.
FileSameLength ==
    /\ current_demo /= <<>>
    /\ files[Cur.file_path].exists
    /\ Len(files[Cur.file_path].data) = Len(Cur.bytes)

\* C9: an advance that finds the file as long as the buffer changes nothing:
\* not the current demo (buffer, cursor, header, handler, dispatched
\* packets), not the history, and no read follows.
C9_NoGrowthNoOp ==
    [][(last'.op \in AdvanceOps /\ pc = "recv" /\ FileSameLength
            /\ last'.res /= "io_error") =>
          /\ UNCHANGED <<current_demo, previous_demos, pc, exit, nextId, files>>
          /\ last'.res = "no_growth"]_vars

\* C9 witness: an advance found no growth on a demo that holds bytes it has
\* not decoded yet.
C9_Witness ==
    /\ last.op \in AdvanceOps
    /\ last.res = "no_growth"
    /\ current_demo /= <<>>
    /\ Cur.header /= <<>>
    /\ Cur.offset < 8 * Len(Cur.bytes)

\* The buffer after a read: the old buffer and the file's bytes behind it.
BufferAfterRead ==
    LET f == files[Cur.file_path].data IN
    Cur.bytes \o SubSeq(f, Len(Cur.bytes) + 1, Len(f))

\* C10: a read that leaves a demo without header holding only a proper
\* prefix of a header keeps the demo current, without header and with cursor
\* 0, its buffer being the old buffer and the bytes read; and a read that
\* completes a header begun by earlier reads sets the header to the first
\* HeaderLen bytes of the old buffer and the bytes read, moves the cursor to
\* the header's end (exactly, when nothing follows the header), and the
\* buffer is the old buffer and the bytes read.
C10_HeaderResumes ==
    [][(pc = "read" /\ last'.op = "read" /\ Cur.header = <<>>
            /\ last'.res \notin {"io_error", "panic"}) =>
          LET all == BufferAfterRead IN
          /\ (0 < Len(all) /\ Len(all) < HeaderLen /\ all[1] /= 0) =>
                 current_demo' = <<[Cur EXCEPT !.bytes = all]>>
          /\ (0 < Len(Cur.bytes) /\ Len(Cur.bytes) < HeaderLen
                  /\ Cur.bytes[1] /= 0 /\ Len(all) >= HeaderLen) =>
                 /\ current_demo' /= <<>>
                 /\ current_demo'[1].header = <<SubSeq(all, 1, HeaderLen)>>
                 /\ current_demo'[1].bytes = all
                 /\ current_demo'[1].offset >= 8 * HeaderLen
                 /\ Len(all) = HeaderLen =>
                        current_demo'[1].offset = 8 * HeaderLen]_vars

\* C10 witness: the header is decoded, the cursor is at its end, and the
\* buffer held a proper prefix of it before the last read.
C10_Witness ==
    /\ current_demo /= <<>>
    /\ last.op = "read"
    /\ 0 < last.pre
    /\ last.pre < HeaderLen
    /\ Cur.header /= <<>>
    /\ Len(Cur.bytes) = HeaderLen
    /\ Cur.offset = 8 * HeaderLen

\* The file of the current session, as it is now.
CurFile == files[Cur.file_path].data

\* The packets the decoder decodes from pos on, as <<start, end>> bit spans,
\* up to a Stop packet, a malformed packet or the end of the data.
RECURSIVE FramesFrom(_, _)
FramesFrom(bytes, pos) ==
    LET r == PacketNext(bytes, pos, FALSE) IN
    IF r.tag /= "packet" THEN <<>>
    ELSE IF r.ended THEN <<<<pos, r.pos>>>>
    ELSE <<<<pos, r.pos>>>> \o FramesFrom(bytes, r.pos)

\* The complete packets of a capture file.
FileFrames(bytes) ==
    LET h == HeaderRead(bytes, 0) IN
    IF h.tag = "ok" THEN FramesFrom(bytes, h.pos) ELSE <<>>

\* Sequence s begins with sequence t.
BeginsWith(s, t) ==
    /\ Len(s) >= Len(t)
    /\ \A i \in 1..Len(t) : s[i] = t[i]

\* The current session, if there is one, has caught up with its file: the
\* buffer is the file, and the complete packets of the file are dispatched.
CaughtUp ==
    current_demo /= <<>> =>
        /\ Cur.bytes = CurFile
        /\ BeginsWith(Cur.dispatched, FileFrames(CurFile))

\* C11: with timeouts alone the current session catches up with its file
\* again and again: every byte the producer has appended gets into the
\* buffer, and every complete packet of the file gets dispatched, however
\* the producer's appends fall between the timeouts.
C11_FallbackProgress ==
    []<>CaughtUp

\* C11 witness: timeouts alone have brought the whole file into the buffer
\* in more than one read, and two packets are dispatched.
C11_Witness ==
    /\ current_demo /= <<>>
    /\ last.op = "read"
    /\ last.pre > HeaderLen
    /\ Cur.bytes = CurFile
    /\ Len(Cur.dispatched) >= 2
    /\ Cur.dispatched = FileFrames(CurFile)

\* C12: a step that keeps the session keeps what its buffer held as the
\* beginning of the buffer (so the buffer never gets shorter), and only the
\* read of an advance changes the buffer, to the old buffer followed by the
\* bytes of the file behind the old buffer's length.
C12_BufferAppendOnly ==
    [][SameSession =>
          /\ BeginsWith(current_demo'[1].bytes, Cur.bytes)
          /\ current_demo'[1].bytes /= Cur.bytes =>
                 /\ pc = "read"
                 /\ last'.op = "read"
                 /\ current_demo'[1].bytes = BufferAfterRead]_vars

\* C12 witness: a read has appended bytes to a buffer that held bytes.
C12_Witness ==
    /\ current_demo /= <<>>
    /\ last.op = "read"
    /\ last.pre > 0
    /\ Len(Cur.bytes) > last.pre + 1

\* The names of the sessions in a sequence of sessions.
Ids(ds) == {ds[i].id : i \in 1..Len(ds)}

\* C13: while the loop runs, every step keeps previous_demos as the beginning
\* of previous_demos (no entry is changed, removed or moved); the only change
\* is that a step that calls new_demo appends the session that was current;
\* an advance of the current session (no new_demo) leaves the history as it
\* is; and the current session is never one of the history.
C13_HistoryFrozen ==
    /\ [](current_demo /= <<>> => Cur.id \notin Ids(previous_demos))
    /\ [][pc' /= "dead" =>
            /\ BeginsWith(previous_demos', previous_demos)
            /\ previous_demos' /= previous_demos =>
                   /\ nextId' /= nextId
                   /\ previous_demos' = previous_demos \o current_demo
            /\ nextId' = nextId => previous_demos' = previous_demos]_vars

\* C13 witness: a read has advanced the current session behind a history of
\* two sessions, the first of which holds bytes of the file it read.
C13_Witness ==
    /\ current_demo /= <<>>
    /\ last.op = "read"
    /\ Cur.bytes /= <<>>
    /\ Len(previous_demos) = 2
    /\ previous_demos[1].bytes /= <<>>

\* The session an advance is about: the one new_demo has just made, or the
\* current one.
Advanced ==
    IF nextId' /= nextId THEN NewOpenDemo(last'.path, nextId') ELSE Cur

\* An advance, or its read, takes this step on some session.
AdvanceStep ==
    \/ pc = "recv" /\ last'.op \in AdvanceOps /\ current_demo /= <<>>
    \/ pc = "recv" /\ last'.op = "modify_new"
    \/ pc = "read" /\ last'.op = "read"

\* C14: an advance, or its read, that fails on the file system (the file is
\* not there, or metadata, open, seek or read fails, or the file is shorter
\* than the buffer) leaves the loop running in recv_timeout with no current
\* session; the session is not in the history, which an advance of the
\* current session leaves as it is; and an advance of a session whose file is
\* not there does fail.
C14_IoErrorContained ==
    [][AdvanceStep =>
          /\ last'.res \in {"io_error", "shrunk"} =>
                 /\ current_demo' = <<>>
                 /\ pc' = "recv"
                 /\ exit' = exit
                 /\ Advanced.id \notin Ids(previous_demos')
                 /\ nextId' = nextId => previous_demos' = previous_demos
          /\ ~files[Advanced.file_path].exists =>
                 last'.res = "io_error"]_vars

\* C14 witness: the file of a session that held bytes vanished between
\* metadata() and File::open, the read has failed, and the loop waits for
\* the next signal with no current session behind a history of one.
C14_Witness ==
    /\ last.op = "read"
    /\ last.res = "io_error"
    /\ last.mid
    /\ last.pre > 0
    /\ \A p \in StreamPaths : ~files[p].exists
    /\ current_demo = <<>>
    /\ Len(previous_demos) = 1
    /\ pc = "recv"

\* C15: a read that ends for lack of data for the next packet keeps the
\* session current, with everything read in the buffer and the cursor at the
\* end of the last unit decoded, where the decoder still lacks data; and a
\* read that completes the packet the buffer ended in dispatches it next, as
\* the packet from the cursor left there.
C15_PartialFrameKept ==
    [][(pc = "read" /\ last'.op = "read"
            /\ last'.res \notin {"io_error", "panic"}) =>
          LET all == BufferAfterRead IN
          /\ last'.res = "pkt_not_enough" =>
                 /\ current_demo' /= <<>>
                 /\ current_demo'[1].id = Cur.id
                 /\ current_demo'[1].bytes = all
                 /\ current_demo'[1].offset = LastUnitEnd(current_demo'[1])
                 /\ PacketNext(all, current_demo'[1].offset, FALSE).tag =
                        "not_enough"
          /\ (/\ Cur.header /= <<>>
              /\ Cur.offset < 8 * Len(Cur.bytes)
              /\ PacketNext(Cur.bytes, Cur.offset, FALSE).tag = "not_enough"
              /\ PacketNext(all, Cur.offset, FALSE).tag = "packet") =>
                 /\ current_demo' /= <<>>
                 /\ Len(current_demo'[1].dispatched) > Len(Cur.dispatched)
                 /\ current_demo'[1].dispatched[Len(Cur.dispatched) + 1] =
                        <<Cur.offset, PacketNext(all, Cur.offset, FALSE).pos>>
                 /\ current_demo'[1].offset >=
                        PacketNext(all, Cur.offset, FALSE).pos]_vars

\* C15 witness: the first packet is dispatched by a read that found its first
\* byte already in the buffer.
C15_Witness ==
    /\ current_demo /= <<>>
    /\ last.op = "read"
    /\ Len(Cur.dispatched) = 1
    /\ Cur.dispatched[1][1] < 8 * last.pre
    /\ 8 * last.pre < Cur.dispatched[1][2]

\* C16: over files that are only appended to, the buffer of the current
\* session is the beginning of its file, whatever the producer appends
\* between metadata() and the read, and after a read it is the whole file as
\* the read found it.
C16_BufferIsFilePrefix ==
    /\ [](current_demo /= <<>> => BeginsWith(CurFile, Cur.bytes))
    /\ [][(pc = "read" /\ last'.op = "read"
              /\ last'.res \notin {"io_error", "panic"}) =>
            /\ current_demo' /= <<>>
            /\ current_demo'[1].bytes = CurFile]_vars

\* C16 witness: the producer appended between metadata() and the read, and
\* the read brought the whole file into a buffer that held bytes.
C16_Witness ==
    /\ current_demo /= <<>>
    /\ last.op = "read"
    /\ last.mid
    /\ last.pre > 0
    /\ Len(Cur.bytes) >= last.pre + 2
    /\ Cur.bytes = CurFile

\* What one advance of session d leaves of it, by what it found.
AdvanceOutcome(d) ==
    /\ (pc' = "read") = (last'.res = "growth")
    /\ last'.res \in {"io_error", "shrunk", "no_growth", "growth"}
    /\ current_demo' = IF last'.res \in {"io_error", "shrunk"}
                       THEN <<>> ELSE <<d>>
    /\ last'.res = "growth" =>
           Len(files[d.file_path].data) > Len(d.bytes)
    /\ last'.res = "no_growth" =>
           Len(files[d.file_path].data) = Len(d.bytes)

\* C17: a ModifyData event for the path of the current session makes no new
\* session and runs one advance of the current session; a ModifyData event
\* for another path with the dem extension appends the current session to
\* the history and runs one advance of a fresh session on that path.
C17_ModifyRouting ==
    [][/\ last'.op = "modify_cur" =>
            /\ current_demo /= <<>>
            /\ nextId' = nextId
            /\ previous_demos' = previous_demos
            /\ AdvanceOutcome(Cur)
       /\ last'.op = "modify_new" =>
            /\ current_demo /= <<>> => Cur.file_path /= last'.path
            /\ last'.path[2] = "dem"
            /\ nextId' = nextId + 1
            /\ previous_demos' = previous_demos \o current_demo
            /\ AdvanceOutcome(NewOpenDemo(last'.path, nextId'))]_vars

\* C17 witness: a ModifyData event for another capture path has retired a
\* session that held bytes, and the advance of the new session found bytes
\* to read.
C17_Witness ==
    /\ last.op = "modify_new"
    /\ last.res = "growth"
    /\ pc = "read"
    /\ current_demo /= <<>>
    /\ previous_demos /= <<>>
    /\ previous_demos[Len(previous_demos)].bytes /= <<>>

\* C18: the header of a session, once there, is the header decoded from the
\* beginning of the buffer, with the cursor at or behind its end, and no step
\* on the session clears or replaces it.
C18_HeaderSetOnce ==
    /\ []((current_demo /= <<>> /\ Cur.header /= <<>>) =>
            /\ Cur.offset >= 8 * HeaderLen
            /\ Len(Cur.bytes) >= HeaderLen
            /\ Cur.header = <<SubSeq(Cur.bytes, 1, HeaderLen)>>
            /\ Cur.handler.header_seen)
    /\ [][(SameSession /\ Cur.header /= <<>>) =>
            current_demo'[1].header = Cur.header]_vars

\* C18 witness: a session that had its header has read more bytes and still
\* stands behind the header with no packet decoded.
C18_Witness ==
    /\ current_demo /= <<>>
    /\ last.op = "read"
    /\ last.pre >= HeaderLen
    /\ Len(Cur.bytes) > last.pre
    /\ Cur.header /= <<>>
    /\ Cur.dispatched = <<>>

\* C19 (as claimed): the loop's handling of an event of another kind, of a
\* Create event for a path without the dem extension, and of a ModifyData
\* event for a path that is neither the current one nor has the dem
\* extension changes nothing: not the manager, not the loop (no read
\* follows), not the files.
C19_IgnoredSignals ==
    [][\A ev \in Events :
          (\/ ev.kind = "Other" /\ (EventNoPath(ev) \/ EventOther(ev))
           \/ /\ ev.paths /= <<>>
              /\ ~IsDem(ev.paths[1])
              /\ \/ EventCreate(ev, MaxSessions)
                 \/ /\ ~IsCurrentPath(current_demo, ev.paths[1])
                    /\ \E statOk \in BOOLEAN :
                           EventModify(ev, statOk, MaxSessions)) =>
             UNCHANGED <<current_demo, previous_demos, pc, exit, nextId,
                         files, written>>]_vars

\* C20: a read that finds no byte behind the buffer's length, the file being
\* there and readable, changes nothing of the session or the history and
\* reports no error: the loop is back in recv_timeout with the session
\* current.
C20_ZeroReadNoOp ==
    [][(pc = "read" /\ last'.op = "read" /\ last'.res /= "io_error"
            /\ Len(CurFile) <= Len(Cur.bytes)) =>
          /\ last'.res = "read_zero"
          /\ UNCHANGED <<current_demo, previous_demos, exit, nextId>>
          /\ pc' = "recv"]_vars

\* C20 witness: the read of a session that has its header found nothing to
\* read, and the session is current.
C20_Witness ==
    /\ last.op = "read"
    /\ last.res = "read_zero"
    /\ last.mid
    /\ current_demo /= <<>>
    /\ Cur.header /= <<>>
    /\ pc = "recv"

\* C21: the loop's handling of a Create event for a path with the dem
\* extension, be it the path of the current session or not, appends the
\* current session as it is to the history and makes a fresh session on that
\* path current (empty buffer, cursor 0, no header); and the first read of a
\* session, its buffer being empty, takes the file from its first byte on,
\* and decodes the header again if the file begins with one.
C21_CreateAlwaysRestarts ==
    [][/\ \A ev \in Events :
            (/\ ev.paths /= <<>>
             /\ ev.kind = "Create"
             /\ ev.paths[1][2] = "dem"
             /\ EventCreate(ev, MaxFaultSessions)) =>
                /\ previous_demos' = previous_demos \o current_demo
                /\ current_demo' =
                       <<[file_path |-> ev.paths[1], header |-> <<>>,
                          handler |-> NewHandler, bytes |-> <<>>,
                          offset |-> 0, id |-> nextId',
                          dispatched |-> <<>>]>>
                /\ pc' = "recv"
       /\ (/\ pc = "read"
           /\ last'.op = "read"
           /\ last'.res \notin {"io_error", "panic"}
           /\ Cur.bytes = <<>>) =>
              /\ current_demo' /= <<>>
              /\ current_demo'[1].bytes = CurFile
              /\ HeaderRead(CurFile, 0).tag = "ok" =>
                     /\ current_demo'[1].header =
                            <<HeaderRead(CurFile, 0).value>>
                     /\ BeginsWith(current_demo'[1].dispatched,
                                   FileFrames(CurFile))]_vars

\* C21 witness: a Create event for the path of a session that had decoded its
\* header has retired that session, and the fresh session on the same path
\* has read the file from its start and decoded the header again.
C21_Witness ==
    /\ current_demo /= <<>>
    /\ last.op = "read"
    /\ last.pre = 0
    /\ Cur.header /= <<>>
    /\ Len(previous_demos) = 1
    /\ previous_demos[1].file_path = Cur.file_path
    /\ previous_demos[1].header /= <<>>
    /\ previous_demos[1].offset > 0

\* The elements of a sequence.
Range(q) == {q[i] : i \in 1..Len(q)}

\* C22: batch_buffer always holds fewer than BATCH_SIZE ids between the
\* steps of api_loop; a Lookup under a valid key that finds BATCH_SIZE - 1
\* ids buffered sends them and its own id as one batch; every batch sent is
\* the whole buffer, which is empty afterwards whether the request succeeded
\* or not; the ids of a batch are answered all or not at all; and no step
\* puts an id into the buffer other than the id of the Lookup it handles, so
\* the ids of a failed batch never come back.
C22_BatchBufferBounded ==
    /\ [](Len(batch_buffer) < BATCH_SIZE)
    /\ [][/\ (/\ api_last'.op = "lookup"
              /\ api_key_valid
              /\ Len(batch_buffer) = BATCH_SIZE - 1) =>
                 api_last'.sent = Append(batch_buffer, api_last'.id)
          /\ api_last'.sent /= <<>> =>
                 /\ batch_buffer' = <<>>
                 /\ api_last'.sent =
                        IF api_last'.op = "lookup"
                        THEN Append(batch_buffer, api_last'.id)
                        ELSE batch_buffer
                 /\ api_last'.resp \in {<<>>, api_last'.sent}
          /\ api_last'.sent = <<>> =>
                 /\ api_last'.resp = <<>>
                 /\ batch_buffer' \in
                        {batch_buffer, Append(batch_buffer, lookups + 1)}
          /\ Range(batch_buffer') \subseteq
                 Range(batch_buffer) \cup {lookups + 1}]_apivars

\* C22 witness: the Lookup that filled the buffer has sent a batch of
\* BATCH_SIZE ids, the request has failed (no id is answered), and the loop
\* runs on with an empty buffer.
C22_Witness ==
    /\ api_last.op = "lookup"
    /\ Len(api_last.sent) = BATCH_SIZE
    /\ api_last.resp = <<>>
    /\ batch_buffer = <<>>
    /\ api_pc = "run"

\* C23: the key counts as valid exactly if it is the key of 32 hexadecimal
\* digits; a step taken while api_key_valid is false, and the handling of
\* SetAPIKey itself, issue no batch request and no friend-list request, send
\* no answer and leave batch_buffer as it is (a Lookup is dropped, the ids
\* buffered before stay); so requests are issued only while the key is
\* valid.
C23_NoRequestWhileInvalid ==
    /\ [](api_key_valid = (client = HexKey))
    /\ [][(~api_key_valid \/ api_last'.op = "set_key") =>
            /\ api_last'.sent = <<>>
            /\ api_last'.asked = <<>>
            /\ api_last'.resp = <<>>
            /\ batch_buffer' = batch_buffer
            /\ api_pc' = api_pc]_apivars

\* C23 witness: ids 1 and 2 were buffered under a valid key, the Lookup of
\* id 3 was dropped under an invalid key, and the timer has sent ids 1 and 2
\* after a second SetAPIKey made the key valid again.
C23_Witness ==
    /\ api_last.op = "tick"
    /\ api_last.sent = <<1, 2>>
    /\ lookups = 3
    /\ key_sets = 2
    /\ api_key_valid
    /\ batch_buffer = <<>>

====
